---- MODULE Spec2Model ----
(***************************************************************************)
(* A model of advanced_sunbeam_openstack/charm.py: the construction of the *)
(* relation handlers of OSBaseOperatorCharm and OSBaseOperatorAPICharm,    *)
(* the catch-all handler configure_charm with its two readiness gates and  *)
(* the one-time bootstrap, the render context built by contexts(), and the *)
(* peer data accessors leader_set and leader_get.                          *)
(*                                                                         *)
(* A relation handler is a record [relation_name, cls]; a pebble handler   *)
(* is its position in pebble_handlers.  The properties ready, pebble_ready *)
(* and service_ready belong to the handler classes, which charm.py only    *)
(* reads: they are state the environment changes between passes.           *)
(***************************************************************************)
EXTENDS Naturals, Sequences, FiniteSets, TLC

\* Bounds of the model.
MaxPH == 2        \* pebble handlers a charm registers (1..MaxPH)
MaxPre == 2       \* length of the handlers list a subclass passes in

VARIABLES
    service_name,       \* self.service_name
    kind,               \* "base": OSBaseOperatorCharm, "api": OSBaseOperatorAPICharm
    meta,               \* self.meta.relations.keys()
    pre,                \* the handlers list a subclass passes to get_relation_handlers
    relation_handlers,  \* self.relation_handlers
    pebble_handlers,    \* self.pebble_handlers
    ready,              \* relation names whose handler.ready is True
    pebble_ready,       \* pebble handlers whose pebble_ready is True
    service_ready,      \* pebble handlers whose service_ready is True
    stored,             \* self._state (StoredState): the attributes that are set
    status,             \* self.unit.status
    config,             \* the charm config
    is_leader,          \* self.unit.is_leader()
    peer_data,          \* application data of the peers relation
    constructed,        \* get_relation_handlers has run
    ctx,                \* the value the last contexts() call returned
    last,               \* the operation that ran last
    calls,              \* the calls the last configure_charm pass made, in order
    raised,             \* the last operation raised an exception
    ret,                \* the key and the value of the last leader_get
    boot_done,          \* _do_bootstrap has returned at least once
    boot_failed         \* _do_bootstrap has raised at least once

vars == <<service_name, kind, meta, pre, relation_handlers, pebble_handlers,
          ready, pebble_ready, service_ready, stored, status, config,
          is_leader, peer_data, constructed, ctx, last, calls, raised, ret,
          boot_done, boot_failed>>

charmVars == <<service_name, kind, meta, pre, relation_handlers,
               pebble_handlers, constructed>>
peerVars == <<is_leader, peer_data, ret>>
passVars == <<stored, status, calls, raised, boot_done, boot_failed,
              service_ready>>

----------------------------------------------------------------------------
\* Sequences

Range(s) == {s[i] : i \in 1..Len(s)}

SeqsUpTo(S, n) == UNION {[1..k -> S] : k \in 0..n}

Count(s, n) == Cardinality({i \in 1..Len(s) : s[i].relation_name = n})

----------------------------------------------------------------------------
\* Relation handlers: can_add_handler and get_relation_handlers

Handler(n, c) == [relation_name |-> n, cls |-> c]

db_svc == service_name \o "-db"

\* the test of the metadata alone
can_add_handler_no_dup_check(relation_name, handlers) ==
    IF relation_name \notin meta THEN FALSE ELSE TRUE

can_add_handler(relation_name, handlers) ==
    IF relation_name \notin meta
    THEN FALSE
    ELSE IF relation_name \in {h.relation_name : h \in Range(handlers)}
    THEN FALSE
    ELSE TRUE

\* if self.can_add_handler(name, handlers): handlers.append(Cls(self, name, ...))
add_handler(relation_name, cls, handlers) ==
    IF can_add_handler(relation_name, handlers)
    THEN Append(handlers, Handler(relation_name, cls))
    ELSE handlers

base_get_relation_handlers(handlers) ==
    LET h1 == add_handler("amqp", "AMQPHandler", handlers)
        h2 == add_handler(db_svc, "DBHandler", h1)
        h3 == add_handler("shared-db", "SharedDBHandler", h2)
        h4 == add_handler("ingress", "IngressHandler", h3)
        h5 == add_handler("peers", "BasePeerHandler", h4)
    IN  h5

\* the identity-service handler added behind the handlers of the base class
api_get_relation_handlers_appended(handlers) ==
    add_handler("identity-service", "IdentityServiceRequiresHandler",
                base_get_relation_handlers(handlers))

\* OSBaseOperatorAPICharm: the identity-service handler, then super()
api_get_relation_handlers(handlers) ==
    LET h1 == add_handler("identity-service",
                          "IdentityServiceRequiresHandler", handlers)
    IN  base_get_relation_handlers(h1)

get_relation_handlers(handlers) ==
    IF kind = "api"
    THEN api_get_relation_handlers(handlers)
    ELSE base_get_relation_handlers(handlers)

----------------------------------------------------------------------------
\* The render context: contexts()

NoContext == [k \in {} |-> 0]

\* OPSCharmContexts.add_relation_handler: the handler's context is stored
\* under the handler's namespace, replacing what was stored there.
add_relation_handler(ra, handler, i) ==
    (handler.relation_name :>
        [cls |-> handler.cls, name |-> handler.relation_name, data |-> i]) @@ ra

\* OPSCharmContexts.add_config_contexts: each config context is stored
\* under its namespace.
RECURSIVE add_config_contexts(_, _, _)
add_config_contexts(ra, ccs, cfg) ==
    IF ccs = <<>>
    THEN ra
    ELSE add_config_contexts(
             (Head(ccs).name :>
                 [cls |-> Head(ccs).cls, name |-> Head(ccs).name,
                  data |-> cfg]) @@ ra,
             Tail(ccs), cfg)

base_config_contexts ==
    <<[cls |-> "CharmConfigContext", name |-> "options"]>>

config_contexts ==
    IF kind = "api"
    THEN base_config_contexts \o
             <<[cls |-> "WSGIWorkerConfigContext", name |-> "wsgi_config"]>>
    ELSE base_config_contexts

\* the loop without its test of the metadata
RECURSIVE contexts_loop_no_filter(_, _)
contexts_loop_no_filter(ra, i) ==
    IF i > Len(relation_handlers)
    THEN ra
    ELSE LET handler == relation_handlers[i]
         IN  IF handler.relation_name \in ready
             THEN contexts_loop_no_filter(
                      add_relation_handler(ra, handler, i), i + 1)
             ELSE contexts_loop_no_filter(ra, i + 1)

\* the loop without its test of handler.ready
RECURSIVE contexts_loop_no_ready(_, _)
contexts_loop_no_ready(ra, i) ==
    IF i > Len(relation_handlers)
    THEN ra
    ELSE LET handler == relation_handlers[i]
         IN  IF handler.relation_name \notin meta
             THEN contexts_loop_no_ready(ra, i + 1)
             ELSE contexts_loop_no_ready(
                      add_relation_handler(ra, handler, i), i + 1)

RECURSIVE contexts_loop(_, _)
contexts_loop(ra, i) ==
    IF i > Len(relation_handlers)
    THEN ra
    ELSE LET handler == relation_handlers[i]
         IN  IF handler.relation_name \notin meta
             THEN contexts_loop(ra, i + 1)
             ELSE IF handler.relation_name \in ready
             THEN contexts_loop(add_relation_handler(ra, handler, i), i + 1)
             ELSE contexts_loop(ra, i + 1)

\* a context that also carries the stored state of the charm
contexts_with_state(cfg) ==
    ("state" :> [cls |-> "StoredState", name |-> "state",
                 data |-> IF stored["bootstrapped"] THEN "bootstrapped"
                          ELSE "new"])
        @@ add_config_contexts(contexts_loop(NoContext, 1), config_contexts, cfg)

\* the config contexts added before the relation handlers
contexts_config_first(cfg) ==
    contexts_loop(add_config_contexts(NoContext, config_contexts, cfg), 1)

\* ra = OPSCharmContexts(self); the loop over self.relation_handlers; then
\* ra.add_config_contexts(self.config_contexts())
contexts(cfg) ==
    add_config_contexts(contexts_loop(NoContext, 1), config_contexts, cfg)

----------------------------------------------------------------------------
\* The gates and the pass: configure_charm

\* the loop returns the answer of the first handler it finds ready
relation_handlers_ready_any ==
    \E i \in 1..Len(relation_handlers) :
        relation_handlers[i].relation_name \in ready

\* the loop returns after the first handler of the list
relation_handlers_ready_first ==
    relation_handlers = <<>> \/ relation_handlers[1].relation_name \in ready

\* for handler in self.relation_handlers: if not handler.ready: return False
relation_handlers_ready ==
    \A i \in 1..Len(relation_handlers) :
        relation_handlers[i].relation_name \in ready

bootstrapped == stored["bootstrapped"]

Call(op, ph, c) == [op |-> op, ph |-> ph, ctx |-> c]

\* the loop without its pebble_ready test
init_targets_all == pebble_handlers

\* the loop leaves out a handler whose service is running
init_targets_not_running ==
    SelectSeq(pebble_handlers,
              LAMBDA ph : ph \in pebble_ready /\ ph \notin service_ready)

\* for ph in self.pebble_handlers: if ph.pebble_ready: ...
\* the pebble handlers the first loop of configure_charm acts on, in order
init_targets == SelectSeq(pebble_handlers, LAMBDA ph : ph \in pebble_ready)

\* ... ph.init_service(self.contexts())
init_services(cfg) ==
    [i \in 1..Len(init_targets) |->
        Call("init_service", init_targets[i], contexts(cfg))]

\* for ph in self.pebble_handlers: if not ph.service_ready: return
\* the checks made, the last of them the one that failed, if any did
RECURSIVE service_checks(_, _)
service_checks(i, sr) ==
    IF i > Len(pebble_handlers)
    THEN <<>>
    ELSE IF pebble_handlers[i] \notin sr
    THEN <<Call("service_ready", pebble_handlers[i], NoContext)>>
    ELSE <<Call("service_ready", pebble_handlers[i], NoContext)>>
             \o service_checks(i + 1, sr)

\* a gate that one running service opens
containers_ready_any(sr) ==
    \E i \in 1..Len(pebble_handlers) : pebble_handlers[i] \in sr

\* a gate whose test is inverted: a running service makes the pass return
containers_ready_none(sr) ==
    \A i \in 1..Len(pebble_handlers) : pebble_handlers[i] \notin sr

\* the second loop of configure_charm ran to its end: no handler returned
containers_ready(sr) ==
    \A i \in 1..Len(pebble_handlers) : pebble_handlers[i] \in sr

\* a gate that reports the wait in the unit status
abort_waiting(log) ==
    /\ calls' = log
    /\ raised' = FALSE
    /\ status' = "waiting"
    /\ UNCHANGED <<stored, boot_done, boot_failed>>

\* a gate that takes the status back when the pass stops at it
abort_status_reset(log) ==
    /\ calls' = log
    /\ raised' = FALSE
    /\ status' = "unknown"
    /\ UNCHANGED <<stored, boot_done, boot_failed>>

\* return at a gate: nothing but the log of the pass changes
abort(log) ==
    /\ calls' = log
    /\ raised' = FALSE
    /\ UNCHANGED <<stored, status, boot_done, boot_failed>>

\* the flag is persisted before the hook is known to have returned
hook_raises_flag_set(log) ==
    /\ calls' = log
    /\ raised' = TRUE
    /\ boot_failed' = TRUE
    /\ stored' = [stored EXCEPT !["bootstrapped"] = TRUE]
    /\ UNCHANGED <<status, boot_done>>

\* self._do_bootstrap() raises: the exception leaves configure_charm
hook_raises(log) ==
    /\ calls' = log
    /\ raised' = TRUE
    /\ boot_failed' = TRUE
    /\ UNCHANGED <<stored, status, boot_done>>

\* the pass ends without persisting the flag
finalize_no_flag(log, invoked) ==
    /\ calls' = log \o <<Call("status_active", 0, NoContext)>>
    /\ raised' = FALSE
    /\ status' = "active"
    /\ boot_done' = (boot_done \/ invoked)
    /\ UNCHANGED <<stored, boot_failed>>

\* the flag is persisted before the status is set
finalize_flag_first(log, invoked) ==
    /\ calls' = log \o <<Call("set_bootstrapped", 0, NoContext),
                         Call("status_active", 0, NoContext)>>
    /\ raised' = FALSE
    /\ status' = "active"
    /\ stored' = [stored EXCEPT !["bootstrapped"] = TRUE]
    /\ boot_done' = (boot_done \/ invoked)
    /\ UNCHANGED boot_failed

\* self.unit.status = ops.model.ActiveStatus()
\* self._state.bootstrapped = True
finalize(log, invoked) ==
    /\ calls' = log \o <<Call("status_active", 0, NoContext),
                         Call("set_bootstrapped", 0, NoContext)>>
    /\ raised' = FALSE
    /\ status' = "active"
    /\ stored' = [stored EXCEPT !["bootstrapped"] = TRUE]
    /\ boot_done' = (boot_done \/ invoked)
    /\ UNCHANGED boot_failed

\* One pass of configure_charm under the charm config cfg.  started is the
\* set of pebble handlers that report service_ready after init_service has
\* been called on them; hook_ok tells whether _do_bootstrap returns (the
\* hook of charm.py does; a charm overrides it).
Pass(cfg, started, hook_ok) ==
    LET dep == <<Call("relation_handlers_ready", 0, NoContext)>>
    IN
    IF ~relation_handlers_ready
    THEN /\ abort(dep)
         /\ UNCHANGED service_ready
    ELSE LET inits == init_services(cfg)
             inited == Range(init_targets)
             sr == (service_ready \ inited) \cup (started \cap inited)
             gate == dep \o inits \o service_checks(1, sr)
             asked == gate \o <<Call("bootstrapped", 0, NoContext)>>
             hook == asked \o <<Call("_do_bootstrap", 0, NoContext)>>
         IN  /\ service_ready' = sr
             /\ IF ~containers_ready(sr)
                THEN abort(gate)
                ELSE IF bootstrapped
                THEN finalize(asked, FALSE)
                ELSE IF hook_ok
                THEN finalize(hook, TRUE)
                ELSE hook_raises(hook)

\* configure_charm as the callback the handlers invoke
configure_charm ==
    /\ \E started \in SUBSET pebble_ready, hook_ok \in BOOLEAN :
           Pass(config, started, hook_ok)
    /\ last' = "configure_charm"
    /\ UNCHANGED <<charmVars, peerVars, ready, pebble_ready, config, ctx>>

\* the values the charm config takes
ConfigValues == {"default", "changed"}

\* def _on_config_changed(self, event): self.configure_charm(None)
\* dispatched when the charm config has changed to revision cfg
_on_config_changed ==
    /\ \E cfg \in ConfigValues, started \in SUBSET pebble_ready,
          hook_ok \in BOOLEAN :
           /\ cfg # config
           /\ config' = cfg
           /\ Pass(cfg, started, hook_ok)
    /\ last' = "_on_config_changed"
    /\ UNCHANGED <<charmVars, peerVars, ready, pebble_ready, ctx>>

----------------------------------------------------------------------------
\* Construction: __init__

\* a default that overwrites the stored value
set_default_overwrite(st, k, v) == (k :> v) @@ st

\* StoredState.set_default: sets only the attributes that are not set yet
set_default(st, k, v) == IF k \in DOMAIN st THEN st ELSE (k :> v) @@ st

NoState == [k \in {} |-> FALSE]

\* a construction that starts from an empty stored state on every dispatch
init_state_fresh(st) ==
    LET s1 == set_default(NoState, "bootstrapped", FALSE)
    IN  IF kind = "api" THEN set_default(s1, "db_ready", FALSE) ELSE s1

\* self._state.set_default(bootstrapped=False), and db_ready of the API charm
init_state(st) ==
    LET s1 == set_default(st, "bootstrapped", FALSE)
    IN  IF kind = "api" THEN set_default(s1, "db_ready", FALSE) ELSE s1

\* The charm object is built on every dispatch; self._state persists.
\* pre is the handlers list a subclass hands to get_relation_handlers
\* (none in the two classes of charm.py).
__init__ ==
    /\ stored' = init_state(stored)
    /\ relation_handlers' = get_relation_handlers(pre)
    /\ constructed' = TRUE
    /\ last' = "__init__"
    /\ ctx' = NoContext
    /\ UNCHANGED <<service_name, kind, meta, pre, pebble_handlers, peerVars,
                   ready, pebble_ready, service_ready, status, config, calls,
                   raised, boot_done, boot_failed>>

----------------------------------------------------------------------------
\* Peer data: leader_set and leader_get

NoData == [k \in {} |-> ""]

PeerKeys == {"admin-password", "db-password"}
PeerValues == {"s3cr3t", "chang3d"}

\* self.peers is set where get_relation_handlers adds the peers handler
has_peers ==
    \E h \in Range(relation_handlers) :
        h.relation_name = "peers" /\ h.cls = "BasePeerHandler"

\* BasePeerHandler.set_app_data: the application data of the peers relation
\* takes the value when the unit is the leader; the write of another unit
\* is rejected, with or without an exception
set_app_data(key, value) ==
    IF is_leader
    THEN /\ peer_data' = (key :> value) @@ peer_data
         /\ raised' = FALSE
    ELSE /\ peer_data' = peer_data
         /\ raised' \in BOOLEAN

\* BasePeerHandler.get_app_data: every unit reads the application data
get_app_data(key) ==
    IF key \in DOMAIN peer_data THEN peer_data[key] ELSE "None"

\* leader_get without its return statement
leader_get_no_return(key) ==
    /\ IF has_peers
       THEN /\ ret' = [key |-> key, value |-> "None"]
            /\ raised' = FALSE
       ELSE /\ raised' = TRUE
            /\ UNCHANGED ret
    /\ last' = "leader_get"
    /\ UNCHANGED <<charmVars, is_leader, peer_data, stored, status, calls,
                   boot_done, boot_failed, service_ready, ready, pebble_ready,
                   config, ctx>>

\* def leader_set(self, key, value): self.peers.set_app_data(key, value)
\* without the peers handler self.peers is no attribute of the charm
leader_set(key, value) ==
    /\ IF has_peers
       THEN set_app_data(key, value)
       ELSE /\ raised' = TRUE
            /\ UNCHANGED peer_data
    /\ last' = "leader_set"
    /\ UNCHANGED <<charmVars, is_leader, ret, stored, status, calls,
                   boot_done, boot_failed, service_ready, ready, pebble_ready,
                   config, ctx>>

\* def leader_get(self, key): return self.peers.get_app_data(key)
leader_get(key) ==
    /\ IF has_peers
       THEN /\ ret' = [key |-> key, value |-> get_app_data(key)]
            /\ raised' = FALSE
       ELSE /\ raised' = TRUE
            /\ UNCHANGED ret
    /\ last' = "leader_get"
    /\ UNCHANGED <<charmVars, is_leader, peer_data, stored, status, calls,
                   boot_done, boot_failed, service_ready, ready, pebble_ready,
                   config, ctx>>

\* the substrate moves the leadership to or away from this unit
leader_changed ==
    /\ is_leader' = ~is_leader
    /\ last' = "event"
    /\ UNCHANGED <<charmVars, peer_data, ret, passVars, ready, pebble_ready,
                   config, ctx>>

\* the unit that holds the leadership writes the peer data
peer_data_changed ==
    /\ ~is_leader
    /\ has_peers
    /\ \E key \in PeerKeys, value \in PeerValues :
           peer_data' = (key :> value) @@ peer_data
    /\ last' = "event"
    /\ UNCHANGED <<charmVars, is_leader, ret, passVars, ready, pebble_ready,
                   config, ctx>>

----------------------------------------------------------------------------
\* The environment: readiness of the handlers changes between passes

HandlerNames == {h.relation_name : h \in Range(relation_handlers)}

Toggle(S, x) == IF x \in S THEN S \ {x} ELSE S \cup {x}

\* a relation handler's ready property changes value
relation_changed ==
    /\ constructed
    /\ \E n \in HandlerNames : ready' = Toggle(ready, n)
    /\ last' = "event"
    /\ ctx' = NoContext
    /\ UNCHANGED <<charmVars, peerVars, passVars, pebble_ready, config>>

\* a pebble handler's pebble_ready property changes value
pebble_changed ==
    /\ \E p \in Range(pebble_handlers) : pebble_ready' = Toggle(pebble_ready, p)
    /\ last' = "event"
    /\ UNCHANGED <<charmVars, peerVars, passVars, ready, config, ctx>>

\* a service stops running: its handler's service_ready turns False.  It
\* turns True only in init_service, which starts the service.
service_stopped ==
    /\ \E p \in service_ready : service_ready' = service_ready \ {p}
    /\ last' = "event"
    /\ UNCHANGED <<charmVars, peerVars, stored, status, calls, raised,
                   boot_done, boot_failed, ready, pebble_ready, config, ctx>>

\* contexts() is called: the render context of the current dispatch
contexts_called ==
    /\ constructed
    /\ ctx' = contexts(config)
    /\ last' = "contexts"
    /\ UNCHANGED <<charmVars, peerVars, passVars, ready, pebble_ready, config>>

----------------------------------------------------------------------------
\* The specification of the reconcile passes

\* The charms of the passes: the class and the relations of metadata.yaml
Charms ==
    { <<"base", {}>>,
      <<"base", {"amqp", "peers"}>>,
      <<"api", {"identity-service", "shared-db"}>> }

\* get_pebble_handlers returns one handler; a charm with several containers
\* overrides it to return one handler for each
PebbleHandlerLists == {[i \in 1..n |-> i] : n \in {1, MaxPH}}

\* the charm as __init__ leaves it on the first dispatch
CharmInit(charms) ==
    /\ service_name = "keystone"
    /\ \E c \in charms : kind = c[1] /\ meta = c[2]
    /\ pre = <<>>
    /\ relation_handlers = get_relation_handlers(pre)
    /\ pebble_handlers \in PebbleHandlerLists
    /\ stored = init_state(NoState)
    /\ constructed = TRUE

EnvInit ==
    /\ ready = {}
    /\ pebble_ready = {}
    /\ service_ready = {}
    /\ status = "unknown"
    /\ config = "default"

PeerInit ==
    /\ peer_data = NoData
    /\ ret = [key |-> "", value |-> "None"]

ObsInit ==
    /\ ctx = NoContext
    /\ last = "__init__"
    /\ calls = <<>>
    /\ raised = FALSE
    /\ boot_done = FALSE
    /\ boot_failed = FALSE

Init ==
    /\ CharmInit(Charms)
    /\ EnvInit
    /\ is_leader = FALSE
    /\ PeerInit
    /\ ObsInit

Next ==
    \/ configure_charm
    \/ _on_config_changed
    \/ __init__
    \/ relation_changed
    \/ pebble_changed
    \/ service_stopped

Spec == Init /\ [][Next]_vars

\* The pass in which every service init_service acts on comes up and the
\* hook returns.
configure_charm_settled ==
    /\ Pass(config, pebble_ready, TRUE)
    /\ last' = "configure_charm"
    /\ UNCHANGED <<charmVars, peerVars, ready, pebble_ready, config, ctx>>

\* The handlers keep invoking configure_charm: a pass of that kind that
\* stays possible is taken in the end.
SpecLive == Init /\ [][Next]_vars /\ WF_vars(configure_charm_settled)

----------------------------------------------------------------------------
\* The specification of the peer data accessors

PeerCharms ==
    { <<"base", {"amqp", "peers"}>>,
      <<"api", {"identity-service", "peers"}>>,
      <<"base", {"amqp"}>> }

InitPeers ==
    /\ CharmInit(PeerCharms)
    /\ EnvInit
    /\ is_leader \in BOOLEAN
    /\ PeerInit
    /\ ObsInit

NextPeers ==
    \/ \E key \in PeerKeys, value \in PeerValues : leader_set(key, value)
    \/ \E key \in PeerKeys : leader_get(key)
    \/ leader_changed
    \/ peer_data_changed

SpecPeers == InitPeers /\ [][NextPeers]_vars

----------------------------------------------------------------------------
\* The specification of the handler construction and of the render context:
\* the inputs of get_relation_handlers are drawn, __init__ applies it

ServiceNames == {"keystone", "shared"}

\* the names get_relation_handlers of either class asks for, and a relation
\* of a subclass whose name is the namespace of the config context
RelationNames ==
    {"amqp", "shared-db", "ingress", "peers", "identity-service", "options"}
        \cup {n \o "-db" : n \in ServiceNames}

\* handlers a subclass puts in the list before it calls super()
PreHandlers == {Handler(n, "SubclassHandler") : n \in {"amqp", "options"}}

InitHandlers ==
    /\ service_name \in ServiceNames
    /\ kind \in {"base", "api"}
    /\ meta \in SUBSET RelationNames
    /\ pre \in SeqsUpTo(PreHandlers, MaxPre)
    /\ relation_handlers = <<>>
    /\ pebble_handlers = <<1>>
    /\ stored = NoState
    /\ constructed = FALSE
    /\ EnvInit
    /\ is_leader = FALSE
    /\ PeerInit
    /\ ObsInit

NextHandlers ==
    \/ __init__
    \/ relation_changed
    \/ contexts_called

SpecHandlers == InitHandlers /\ [][NextHandlers]_vars

TypeOK ==
    /\ kind \in {"base", "api"}
    /\ ready \subseteq HandlerNames
    /\ pebble_ready \subseteq Range(pebble_handlers)
    /\ service_ready \subseteq Range(pebble_handlers)
    /\ status \in {"unknown", "active"}
    /\ bootstrapped \in BOOLEAN

----------------------------------------------------------------------------
\* Vocabulary of the properties

Flag == stored["bootstrapped"]

CallOps(log) == {log[i].op : i \in 1..Len(log)}

InitCalls(log) == SelectSeq(log, LAMBDA c : c.op = "init_service")

PassOps == {"configure_charm", "_on_config_changed"}

\* the step is a pass of configure_charm
PassStep == last' \in PassOps

\* the pass that calls records went through both gates
PassedGates(log) == "bootstrapped" \in CallOps(log)

\* the last operation was a pass that ran to its end
Converged == last \in PassOps /\ "set_bootstrapped" \in CallOps(calls)

\* every registered relation handler reports ready
AllDepsReady == \A h \in Range(relation_handlers) : h.relation_name \in ready

\* every registered pebble handler reports service_ready
AllServicesReady == Range(pebble_handlers) \subseteq service_ready

DepGateLog == <<Call("relation_handlers_ready", 0, NoContext)>>

----------------------------------------------------------------------------
\* C1 (monotonic gating): in a pass during which some registered relation
\* handler is not ready, the bootstrapped flag does not go from false to
\* true and the unit status is not set to active.
C1_MonotonicGating ==
    [][(PassStep /\ ~AllDepsReady) =>
           /\ ~(~Flag /\ Flag')
           /\ "status_active" \notin CallOps(calls')
           /\ (status # "active" => status' # "active")]_vars

\* a pass has just stopped at the dependency gate, one handler ready and
\* another not, while every container was ready
C1_Witness ==
    /\ last \in PassOps
    /\ ~AllDepsReady
    /\ ready # {}
    /\ AllServicesReady
    /\ ~Flag
    /\ status # "active"
    /\ calls = DepGateLog

\* C2 (at-most-one bootstrap): once _do_bootstrap has been invoked and has
\* returned, no later pass invokes it, whatever the readiness signals are.
C2_AtMostOneBootstrap ==
    [][(boot_done /\ PassStep) => "_do_bootstrap" \notin CallOps(calls')]_vars

\* the hook has returned in an earlier pass and a pass has just gone
\* through both gates without invoking it
C2_Witness ==
    /\ boot_done
    /\ last \in PassOps
    /\ PassedGates(calls)
    /\ "_do_bootstrap" \notin CallOps(calls)
    /\ "set_bootstrapped" \in CallOps(calls)

\* C3 (dependency gate abort): when some relation handler is not ready the
\* pass returns without raising, calls init_service on no pebble handler,
\* does not invoke the hook, and leaves the stored state, the unit status
\* and the service readiness as they were.
C3_DependencyGateAbort ==
    [][(PassStep /\ ~AllDepsReady) =>
           /\ ~raised'
           /\ calls' = DepGateLog
           /\ stored' = stored
           /\ status' = status
           /\ service_ready' = service_ready]_vars

\* a pass has just stopped at the dependency gate although a container was
\* reachable and an earlier pass had set the status
C3_Witness ==
    /\ last \in PassOps
    /\ ~AllDepsReady
    /\ pebble_ready # {}
    /\ status = "active"
    /\ Flag
    /\ calls = DepGateLog
    /\ ~raised

\* C4 (converging pass): when every relation handler is ready, every pebble
\* handler reports service_ready at the process gate, the flag is false and
\* the hook returns, the pass invokes _do_bootstrap exactly once, after the
\* gates, and ends with status active and the flag true; a pass that follows
\* at once does not invoke the hook.
C4_ConvergingPass ==
    [][/\ (/\ PassStep
           /\ AllDepsReady
           /\ AllServicesReady'
           /\ ~Flag
           /\ ~raised')
          => /\ Cardinality({i \in 1..Len(calls') :
                                calls'[i].op = "_do_bootstrap"}) = 1
             /\ calls'[Len(calls') - 2].op = "_do_bootstrap"
             /\ calls'[Len(calls') - 1].op = "status_active"
             /\ calls'[Len(calls')].op = "set_bootstrapped"
             /\ status' = "active"
             /\ Flag'
       /\ (/\ PassStep
           /\ Converged
           /\ "_do_bootstrap" \in CallOps(calls))
          => "_do_bootstrap" \notin CallOps(calls')]_vars

\* the pass that has just run invoked the hook and set status and flag
C4_Witness ==
    /\ last \in PassOps
    /\ "_do_bootstrap" \in CallOps(calls)
    /\ "init_service" \in CallOps(calls)
    /\ status = "active"
    /\ Flag
    /\ ~raised

\* C5 (idempotence): after a converging pass, a pass that runs with no
\* change of the relation handlers, of the pebble handlers or of the config
\* leaves the status active and the flag true, does not invoke the hook,
\* runs to its end again, and repeats exactly the init_service calls of the
\* pass before it, render context included.
C5_Idempotence ==
    [][(/\ Converged
        /\ PassStep
        /\ config' = config
        /\ service_ready' = service_ready)
       => /\ status' = "active"
          /\ Flag'
          /\ "_do_bootstrap" \notin CallOps(calls')
          /\ "set_bootstrapped" \in CallOps(calls')
          /\ InitCalls(calls') = InitCalls(calls)]_vars

\* two passes in a row have run to their end: the last invoked no hook and
\* repeated an init_service call
C5_Witness ==
    /\ Converged
    /\ boot_done
    /\ "_do_bootstrap" \notin CallOps(calls)
    /\ InitCalls(calls) # <<>>
    /\ ready # {}

\* C6 (bootstrap failure): when _do_bootstrap raises, the exception leaves
\* configure_charm, the flag stays false and the status is not touched; the
\* flag stays false until a pass goes through both gates, and every pass
\* that goes through both gates with the flag false invokes the hook.
C6_BootstrapFailure ==
    [][/\ (PassStep /\ raised')
          => /\ calls'[Len(calls')].op = "_do_bootstrap"
             /\ ~Flag'
             /\ status' = status
       /\ (~Flag /\ ~(PassStep /\ PassedGates(calls'))) => ~Flag'
       /\ (PassStep /\ ~Flag /\ PassedGates(calls'))
          => "_do_bootstrap" \in CallOps(calls')]_vars

\* the hook raised in an earlier pass and the pass that has just run
\* invoked it again
C6_Witness ==
    /\ boot_failed
    /\ last \in PassOps
    /\ "_do_bootstrap" \in CallOps(calls)
    /\ ~raised
    /\ Flag

\* the hook has just raised
C6_WitnessRaised ==
    /\ last \in PassOps
    /\ raised
    /\ ~Flag
    /\ status # "active"

\* init_service calls the pass made on pebble handler p
InitCount(log, p) ==
    Cardinality({i \in 1..Len(log) :
                    log[i].op = "init_service" /\ log[i].ph = p})

Unreachable == Range(pebble_handlers) \ pebble_ready

\* the pass stopped at a gate: no hook, no status, the flag as it was
GateFailed ==
    /\ ~PassedGates(calls')
    /\ "_do_bootstrap" \notin CallOps(calls')
    /\ "status_active" \notin CallOps(calls')
    /\ Flag' = Flag
    /\ status' = status

\* C7 as stated: with every relation handler ready and a pebble handler
\* whose pebble_ready is false, init_service is not called on it, is called
\* on every handler whose pebble_ready is true, and the process gate fails.
C7_Original ==
    [][(PassStep /\ AllDepsReady /\ Unreachable # {}) =>
           /\ \A p \in Range(pebble_handlers) :
                  InitCount(calls', p) = IF p \in pebble_ready THEN 1 ELSE 0
           /\ GateFailed]_vars

\* C7 (unreachable process endpoint), amended: with every relation handler
\* ready and a pebble handler whose pebble_ready is false, init_service is
\* not called on it and is called once on every handler whose pebble_ready
\* is true; the process gate fails when the unreachable handler reports
\* service_ready false, and it is service_ready alone that decides the
\* gate: with every handler reporting service_ready the pass goes through.
C7_UnreachableEndpoint ==
    [][(PassStep /\ AllDepsReady /\ Unreachable # {}) =>
           /\ \A p \in Range(pebble_handlers) :
                  InitCount(calls', p) = IF p \in pebble_ready THEN 1 ELSE 0
           /\ (\E p \in Unreachable : p \notin service_ready) => GateFailed
           /\ AllServicesReady' => PassedGates(calls')]_vars

\* a pass has just initialised the reachable container, skipped the
\* unreachable one, which is not service_ready, and stopped at the gate
C7_Witness ==
    /\ last \in PassOps
    /\ AllDepsReady
    /\ \E p \in Unreachable :
           /\ p \notin service_ready
           /\ InitCount(calls, p) = 0
    /\ \E q \in pebble_ready : InitCount(calls, q) = 1 /\ q \in service_ready
    /\ ~PassedGates(calls)

\* the value the peer data holds under key k
CurrentValue(k) == IF k \in DOMAIN peer_data THEN peer_data[k] ELSE "None"

\* C8 (peer data is leader-only for writes): with the peers handler present
\* and the unit not the leader, leader_set leaves the peer data as it was,
\* and leader_get raises nothing, changes nothing and returns the value the
\* peer data holds under the key.
C8_PeerDataLeaderOnly ==
    [][/\ (last' = "leader_set" /\ has_peers /\ ~is_leader)
          => peer_data' = peer_data
       /\ (last' = "leader_get" /\ has_peers /\ ~is_leader)
          => /\ ~raised'
             /\ ret'.value = CurrentValue(ret'.key)
             /\ peer_data' = peer_data]_vars

\* a unit that is not the leader has just read a value the leader wrote
C8_Witness ==
    /\ last = "leader_get"
    /\ has_peers
    /\ ~is_leader
    /\ ret.value \in PeerValues
    /\ ret.value = CurrentValue(ret.key)

\* a unit that is not the leader has just had its write rejected
C8_WitnessWrite ==
    /\ last = "leader_set"
    /\ has_peers
    /\ ~is_leader
    /\ raised
    /\ peer_data # NoData

----------------------------------------------------------------------------
\* Properties of the handler construction (SpecHandlers)

NamesOf(handlers) == {h.relation_name : h \in Range(handlers)}

\* the handlers get_relation_handlers has constructed: those it returns
\* behind the list it was handed
Constructed ==
    SubSeq(relation_handlers, Len(pre) + 1, Len(relation_handlers))

HandlerClasses ==
    {"AMQPHandler", "DBHandler", "SharedDBHandler", "IngressHandler",
     "BasePeerHandler", "IdentityServiceRequiresHandler", "SubclassHandler"}

\* C9 (manifest filtering): for a relation name that the metadata does not
\* declare, get_relation_handlers constructs no handler, and the context
\* contexts() returns holds no contribution of a handler of that name, be
\* the handler ready or not.
C9_ManifestFiltering ==
    constructed =>
        /\ SubSeq(relation_handlers, 1, Len(pre)) = pre
        /\ \A h \in Range(Constructed) : h.relation_name \in meta
        /\ last = "contexts" =>
               \A k \in DOMAIN ctx :
                   ctx[k].cls \in HandlerClasses => ctx[k].name \in meta

\* contexts() has just run with a handler in the list whose relation is not
\* declared and which is ready, beside a declared one that contributed
C9_Witness ==
    /\ constructed
    /\ last = "contexts"
    /\ \E h \in Range(relation_handlers) :
           /\ h.relation_name \notin meta
           /\ h.relation_name \in ready
           /\ h.relation_name \notin DOMAIN ctx
    /\ \E k \in DOMAIN ctx : ctx[k].cls \in HandlerClasses
    /\ \E n \in RelationNames \ {"options"} : n \notin meta

\* C10 as stated: after construction, with any list handed in, the handler
\* list holds at most one handler for a relation name.
C10_Original ==
    constructed => \A n \in RelationNames : Count(relation_handlers, n) <= 1

\* C10 (handler set uniqueness), amended: construction keeps the list it is
\* handed and adds at most one handler for a name, and none for a name that
\* the list already holds or that the metadata does not declare; so the
\* handler list holds at most one handler for a name whenever the list
\* handed in does.
C10_HandlerUniqueness ==
    constructed =>
        /\ SubSeq(relation_handlers, 1, Len(pre)) = pre
        /\ \A n \in RelationNames :
               /\ Count(Constructed, n) <= 1
               /\ (n \notin meta \/ n \in NamesOf(pre))
                      => Count(Constructed, n) = 0
        /\ (\A n \in RelationNames : Count(pre, n) <= 1)
               => \A n \in RelationNames : Count(relation_handlers, n) <= 1

\* the list handed in held a handler for amqp, which is declared, and the
\* construction added handlers behind it but none for amqp nor for a name
\* that is not declared
C10_Witness ==
    /\ constructed
    /\ "amqp" \in NamesOf(pre)
    /\ "amqp" \in meta
    /\ "peers" \notin meta
    /\ Len(relation_handlers) > Len(pre)
    /\ Count(relation_handlers, "amqp") = 1

\* the database relation of the service is the shared-db relation: the
\* second of the two attempts finds the name registered
C10_WitnessSameName ==
    /\ constructed
    /\ db_svc = "shared-db"
    /\ "shared-db" \in meta
    /\ Count(relation_handlers, "shared-db") = 1

----------------------------------------------------------------------------
\* C11 (bootstrapped flag lifecycle): the flag is false when the stored
\* state is first created; through every pass, every event and every
\* construction of the charm object on a later dispatch it never goes from
\* true to false, so that it goes from false to true at most once.
C11_FlagLifecycle ==
    /\ ~Flag
    /\ [][Flag => Flag']_vars

\* the charm object has been constructed again after a pass had set the
\* flag, and the flag is still set
C11_Witness ==
    /\ last = "__init__"
    /\ Flag
    /\ boot_done
    /\ status = "active"

\* the handler at position i of the list is ready and its relation is
\* declared in the metadata
Contributes(i) ==
    /\ relation_handlers[i].relation_name \in meta
    /\ relation_handlers[i].relation_name \in ready

\* the value the handler at position i stores in a context
HandlerValue(i) ==
    [cls |-> relation_handlers[i].cls,
     name |-> relation_handlers[i].relation_name, data |-> i]

\* the value a config context stores in a context built with config cfg
ConfigValue(cc, cfg) == [cls |-> cc.cls, name |-> cc.name, data |-> cfg]

\* C12 (render context membership): every entry of a handler in the
\* context contexts() returns is the contribution of a handler of the list
\* that is ready and whose relation is declared; a handler of the list that
\* is not ready or whose relation is not declared has no entry; a ready
\* handler of a declared relation leaves the key of its relation in the
\* context; the contribution of every config context is in the context.
C12_ContextMembership ==
    (constructed /\ last = "contexts") =>
        /\ \A k \in DOMAIN ctx :
               ctx[k].cls \in HandlerClasses =>
                   \E i \in 1..Len(relation_handlers) :
                       /\ ctx[k] = HandlerValue(i)
                       /\ relation_handlers[i].relation_name = k
                       /\ Contributes(i)
        /\ \A i \in 1..Len(relation_handlers) :
               /\ ~Contributes(i) =>
                      \A k \in DOMAIN ctx : ctx[k] # HandlerValue(i)
               /\ Contributes(i) =>
                      relation_handlers[i].relation_name \in DOMAIN ctx
        /\ \A j \in 1..Len(config_contexts) :
               /\ config_contexts[j].name \in DOMAIN ctx
               /\ ctx[config_contexts[j].name] =
                      ConfigValue(config_contexts[j], config)

\* contexts() has just run on a list with a handler that contributed, a
\* handler of a declared relation that is not ready and a ready handler
\* whose relation is not declared
C12_Witness ==
    /\ constructed
    /\ last = "contexts"
    /\ \E i \in 1..Len(relation_handlers) :
           /\ Contributes(i)
           /\ relation_handlers[i].relation_name \in DOMAIN ctx
           /\ ctx[relation_handlers[i].relation_name] = HandlerValue(i)
    /\ \E i \in 1..Len(relation_handlers) :
           /\ relation_handlers[i].relation_name \in meta
           /\ relation_handlers[i].relation_name \notin ready
           /\ relation_handlers[i].relation_name \notin DOMAIN ctx
    /\ \E i \in 1..Len(relation_handlers) :
           /\ relation_handlers[i].relation_name \notin meta
           /\ relation_handlers[i].relation_name \in ready
    /\ "options" \in DOMAIN ctx

\* The contributors of a context in the order of their registration: the
\* handlers of the list by position, the config contexts behind them.
\* Writers(k) are the positions of the contributors that write key k.
Writers(k) ==
    {i \in 1..Len(relation_handlers) :
         Contributes(i) /\ relation_handlers[i].relation_name = k}
    \cup {Len(relation_handlers) + j : j \in
             {j \in 1..Len(config_contexts) : config_contexts[j].name = k}}

\* what the contributor at position p writes
WrittenBy(p) ==
    IF p <= Len(relation_handlers)
    THEN HandlerValue(p)
    ELSE ConfigValue(config_contexts[p - Len(relation_handlers)], config)

LastOf(S) == CHOOSE p \in S : \A q \in S : q <= p

\* C13 (last-write-wins): in the context contexts() returns, the value
\* under a key is the value written by the last registered of the
\* contributors that write the key, handlers in the order of the list and
\* config contexts behind them; a key nobody writes is absent.
C13_LastWriteWins ==
    (constructed /\ last = "contexts") =>
        \A k \in RelationNames \cup DOMAIN ctx \cup {"wsgi_config"} :
            IF Writers(k) = {}
            THEN k \notin DOMAIN ctx
            ELSE /\ k \in DOMAIN ctx
                 /\ ctx[k] = WrittenBy(LastOf(Writers(k)))

\* contexts() has just run on a list in which two ready handlers of the
\* declared relation amqp stand at different positions, and the value under
\* amqp is the one of the later
C13_Witness ==
    /\ constructed
    /\ last = "contexts"
    /\ \E i, j \in Writers("amqp") :
           /\ i < j
           /\ ctx["amqp"] = HandlerValue(j)
           /\ ctx["amqp"] # HandlerValue(i)

\* contexts() has just run on a list in which a ready handler of the
\* declared relation options wrote the key the config context wrote after
C13_WitnessConfig ==
    /\ constructed
    /\ last = "contexts"
    /\ \E i \in Writers("options") : i <= Len(relation_handlers)
    /\ ctx["options"] = ConfigValue(config_contexts[1], config)

\* C14 (init on every eligible pass): in every pass during which every
\* relation handler is ready, init_service is called exactly once on each
\* pebble handler whose pebble_ready is true and on no other, whatever the
\* flag and the service_ready of the handlers are.
C14_InitOnEveryPass ==
    [][(PassStep /\ AllDepsReady) =>
           \A p \in Range(pebble_handlers) :
               InitCount(calls', p) = IF p \in pebble_ready THEN 1 ELSE 0]_vars

\* a pass that found the flag set, and so invoked no hook, has just called
\* init_service once on each of two pebble handlers
C14_Witness ==
    /\ last \in PassOps
    /\ AllDepsReady
    /\ Flag
    /\ PassedGates(calls)
    /\ "_do_bootstrap" \notin CallOps(calls)
    /\ Len(pebble_handlers) = 2
    /\ \A p \in Range(pebble_handlers) :
           p \in pebble_ready /\ InitCount(calls, p) = 1

\* C15 (process gate abort): in a pass during which every relation handler
\* is ready and, after the init_service calls, some pebble handler reports
\* service_ready false, the pass returns at the check of such a handler
\* without raising: it does not invoke the hook, does not set the status
\* and leaves the stored state, the flag in it, as it was.
C15_ProcessGateAbort ==
    [][(PassStep /\ AllDepsReady /\ ~AllServicesReady') =>
           /\ GateFailed
           /\ ~raised'
           /\ stored' = stored
           /\ calls'[Len(calls')].op = "service_ready"
           /\ calls'[Len(calls')].ph \notin service_ready']_vars

\* a pass has just called init_service, found one service running and
\* another not, and returned at the process gate with flag and status
\* untouched
C15_Witness ==
    /\ last \in PassOps
    /\ AllDepsReady
    /\ ~AllServicesReady
    /\ service_ready # {}
    /\ InitCalls(calls) # <<>>
    /\ calls[Len(calls)].op = "service_ready"
    /\ ~raised
    /\ ~Flag
    /\ status = "unknown"

\* the place of a step in the order the claim gives to a pass
StepRank(op) ==
    CASE op = "relation_handlers_ready" -> 1
      [] op = "init_service" -> 2
      [] op = "service_ready" -> 3
      [] op = "bootstrapped" -> 4
      [] op = "_do_bootstrap" -> 5
      [] op = "status_active" -> 6
      [] op = "set_bootstrapped" -> 7

\* the steps a pass takes more than once
RepeatedSteps == {"init_service", "service_ready"}

\* C16 (step ordering within a pass): the steps of a pass are in the order
\* dependency gate, init_service calls, service_ready checks of the process
\* gate, test of the flag, hook, status active, flag persisted: the
\* dependency gate is evaluated first, every init_service call comes before
\* every service_ready check, the hook, when invoked, comes after a check
\* of every pebble handler and before the status, and the status is set
\* before the flag is persisted.
C16_StepOrdering ==
    /\ calls # <<>> => calls[1].op = "relation_handlers_ready"
    /\ \A i, j \in 1..Len(calls) :
           i < j =>
               /\ StepRank(calls[i].op) <= StepRank(calls[j].op)
               /\ calls[i].op \notin RepeatedSteps
                      => StepRank(calls[i].op) < StepRank(calls[j].op)
    /\ "_do_bootstrap" \in CallOps(calls) =>
           /\ \A p \in Range(pebble_handlers) :
                  \E i \in 1..Len(calls) :
                      calls[i].op = "service_ready" /\ calls[i].ph = p
           /\ "status_active" \in CallOps(calls) \/ raised
    /\ "set_bootstrapped" \in CallOps(calls)
           => "status_active" \in CallOps(calls)

\* a pass has just taken every step: the gate of the relation handlers, two
\* init_service calls, two service_ready checks, the hook, status and flag
C16_Witness ==
    /\ last \in PassOps
    /\ CallOps(calls) = {"relation_handlers_ready", "init_service",
                         "service_ready", "bootstrapped", "_do_bootstrap",
                         "status_active", "set_bootstrapped"}
    /\ Len(InitCalls(calls)) = 2
    /\ Len(calls) = 9

\* every registered pebble handler reports pebble_ready
AllPebbleReady == Range(pebble_handlers) \subseteq pebble_ready

\* C17 (liveness under stable readiness): when from some point on every
\* relation handler stays ready and every pebble handler stays
\* pebble_ready, and passes in which the initialised services come up and
\* the hook returns keep being run, then from some point on the status is
\* active and the flag is true for ever.
C17_Liveness ==
    <>[](AllDepsReady /\ AllPebbleReady) => <>[](status = "active" /\ Flag)

\* a pass has just run to its end, with every handler ready, after an
\* earlier pass in which the hook had raised
C17_Witness ==
    /\ last \in PassOps
    /\ AllDepsReady
    /\ AllPebbleReady
    /\ AllServicesReady
    /\ boot_failed
    /\ boot_done
    /\ status = "active"
    /\ Flag

\* the handlers of the base class in the order of the claim: amqp, private
\* database, shared database, ingress, peers
BaseCandidates ==
    <<Handler("amqp", "AMQPHandler"),
      Handler(service_name \o "-db", "DBHandler"),
      Handler("shared-db", "SharedDBHandler"),
      Handler("ingress", "IngressHandler"),
      Handler("peers", "BasePeerHandler")>>

IdentityCandidate ==
    <<Handler("identity-service", "IdentityServiceRequiresHandler")>>

\* the candidates of a list whose relation is declared and which neither
\* the handlers before nor an earlier candidate name, in their order
RECURSIVE Restricted(_, _)
Restricted(cands, before) ==
    IF cands = <<>>
    THEN <<>>
    ELSE IF /\ Head(cands).relation_name \in meta
            /\ Head(cands).relation_name \notin NamesOf(before)
         THEN <<Head(cands)>>
                  \o Restricted(Tail(cands), Append(before, Head(cands)))
         ELSE Restricted(Tail(cands), before)

\* C18 (handler order of the API class): the handlers the API class
\* constructs are the identity-service handler, when the relation is
\* declared, followed by the handlers of the base class in the order amqp,
\* private database, shared database, ingress, peers, restricted to the
\* declared names; the handlers behind the identity-service handler are
\* those the base class constructs for the same metadata.
C18_ApiHandlerOrder ==
    (constructed /\ kind = "api") =>
        /\ Constructed =
               Restricted(IdentityCandidate, pre)
                   \o Restricted(BaseCandidates, pre)
        /\ ("identity-service" \in meta) =
               (Constructed # <<>>
                   /\ Constructed[1] = IdentityCandidate[1])
        /\ Constructed =
               Restricted(IdentityCandidate, pre)
                   \o SubSeq(base_get_relation_handlers(pre), Len(pre) + 1,
                             Len(base_get_relation_handlers(pre)))
        /\ (service_name \o "-db" # "shared-db" /\ pre = <<>>) =>
               relation_handlers =
                   SelectSeq(IdentityCandidate \o BaseCandidates,
                             LAMBDA h : h.relation_name \in meta)

\* the API class has constructed the identity-service handler and, behind
\* it, three handlers of the base class, one declared relation of the base
\* class being left out
C18_Witness ==
    /\ constructed
    /\ kind = "api"
    /\ pre = <<>>
    /\ "identity-service" \in meta
    /\ Len(relation_handlers) = 4
    /\ relation_handlers[1].relation_name = "identity-service"
    /\ relation_handlers[2].relation_name = "amqp"
    /\ relation_handlers[4].relation_name = "peers"
    /\ "ingress" \notin meta

\* the context c holds the contribution of every handler of the list whose
\* relation is declared
Complete(c) ==
    \A i \in 1..Len(relation_handlers) :
        relation_handlers[i].relation_name \in meta =>
            /\ relation_handlers[i].relation_name \in DOMAIN c
            /\ c[relation_handlers[i].relation_name] = HandlerValue(i)

\* C19 (complete context on init): init_service is called only in a pass
\* during which every registered relation handler is ready, and the context
\* handed to every init_service call holds the contribution of every
\* registered handler whose relation is declared.
C19_CompleteContextOnInit ==
    [][PassStep =>
           \A k \in 1..Len(calls') :
               calls'[k].op = "init_service" =>
                   /\ AllDepsReady
                   /\ Complete(calls'[k].ctx)]_vars

\* a pass of a charm with two relation handlers has just called
\* init_service with a context that holds the contribution of both
C19_Witness ==
    /\ last \in PassOps
    /\ Len(relation_handlers) = 2
    /\ InitCalls(calls) # <<>>
    /\ \A h \in Range(relation_handlers) :
           /\ h.relation_name \in meta
           /\ h.relation_name \in DOMAIN InitCalls(calls)[1].ctx

\* C20 (status never downgraded): no step writes a status other than
\* active, and a status that is active stays active; a pass that runs with
\* status active and flag true while a relation handler is not ready, or
\* while a pebble handler does not report service_ready after the
\* init_service calls, stops at a gate and leaves the status active and the
\* flag true.
C20_StatusNeverDowngraded ==
    [][/\ status' \in {status, "active"}
       /\ status = "active" => status' = "active"
       /\ (/\ PassStep
           /\ status = "active"
           /\ Flag
           /\ (~AllDepsReady \/ ~AllServicesReady'))
          => /\ ~PassedGates(calls')
             /\ ~raised'
             /\ status' = "active"
             /\ Flag']_vars

\* the status is active and the flag true although a pass has just stopped
\* at the dependency gate, a relation handler being not ready
C20_Witness ==
    /\ last \in PassOps
    /\ status = "active"
    /\ Flag
    /\ ~AllDepsReady
    /\ calls = DepGateLog
    /\ boot_done

\* the status is active and the flag true although a pass has just stopped
\* at the process gate, a service being not ready
C20_WitnessProcessGate ==
    /\ last \in PassOps
    /\ status = "active"
    /\ Flag
    /\ AllDepsReady
    /\ ~AllServicesReady
    /\ calls[Len(calls)].op = "service_ready"

====
